---------------------------- MODULE Spec2Model ----------------------------
(***************************************************************************)
(* A model of the Pyborist scikit-learn style bridge                       *)
(* (ArboristBridgePy/pyborist/skl.py): the estimator object, set_params,   *)
(* fit (validation, presort, parameter resolution, training request) and   *)
(* predict.  Floating point values are modelled as exact rationals         *)
(* <<numerator, denominator>>; a zero denominator stands for nan / inf.    *)
(***************************************************************************)
EXTENDS Integers, Sequences, FiniteSets, TLC

VARIABLES cls, task0, params, fitted, call

vars == <<cls, task0, params, fitted, call>>

-----------------------------------------------------------------------------
(* Bounds of the model *)

MaxRows == 3
MaxLabel == 2
MaxPredRows == 1
MaxKwargs == 2

-----------------------------------------------------------------------------
(* Python's None and optional values *)

\* F applied to the value of v, with v evaluated once
Bind(v, F(_)) == CHOOSE r \in {F(a) : a \in {v}} : TRUE

None == <<>>
Some(v) == <<v>>
IsNone(o) == o = <<>>
Val(o) == o[1]

-----------------------------------------------------------------------------
(* Exact rationals standing for numpy doubles *)

Abs(i) == IF i < 0 THEN -i ELSE i

RECURSIVE Gcd(_, _)
Gcd(a, b) == IF b = 0 THEN a ELSE Gcd(b, a % b)

Sign(i) == IF i < 0 THEN -1 ELSE IF i = 0 THEN 0 ELSE 1

\* canonical form: positive denominator, lowest terms; n/0 is nan (n = 0) or +-inf
Rat(n, d) ==
    IF d = 0 THEN <<Sign(n), 0>>
    ELSE LET g == Gcd(Abs(n), Abs(d))
             s == IF d < 0 THEN -1 ELSE 1
         IN  <<(s * n) \div g, (s * d) \div g>>

R(i) == <<i, 1>>
NaN == <<0, 0>>
IsNaN(a) == a[2] = 0 /\ a[1] = 0
IsInf(a) == a[2] = 0 /\ a[1] # 0
IsFinite(a) == a[2] # 0

RAdd(a, b) ==
    IF IsNaN(a) \/ IsNaN(b) THEN NaN
    ELSE IF IsInf(a) /\ IsInf(b) THEN (IF a[1] = b[1] THEN a ELSE NaN)
    ELSE IF IsInf(a) THEN a
    ELSE IF IsInf(b) THEN b
    ELSE Rat(a[1] * b[2] + b[1] * a[2], a[2] * b[2])

RMul(a, b) ==
    IF IsNaN(a) \/ IsNaN(b) THEN NaN
    ELSE IF IsInf(a) \/ IsInf(b) THEN Rat(Sign(a[1]) * Sign(b[1]), 0)
    ELSE Rat(a[1] * b[1], a[2] * b[2])

RNeg(a) == <<-a[1], a[2]>>
RSub(a, b) == RAdd(a, RNeg(b))

\* numpy division: x/0 is +-inf, 0/0 is nan, x/inf is 0
RDiv(a, b) ==
    IF IsNaN(a) \/ IsNaN(b) THEN NaN
    ELSE IF IsInf(b) THEN (IF IsInf(a) THEN NaN ELSE R(0))
    ELSE IF IsInf(a) THEN Rat(Sign(a[1]) * (IF b[1] < 0 THEN -1 ELSE 1), 0)
    ELSE Rat(a[1] * b[2], a[2] * b[1])

\* comparisons with nan are false, as in IEEE arithmetic
RLt(a, b) ==
    IF IsNaN(a) \/ IsNaN(b) THEN FALSE
    ELSE IF IsInf(a) \/ IsInf(b)
         THEN (IF IsInf(a) /\ IsInf(b) THEN a[1] < b[1]
               ELSE IF IsInf(a) THEN a[1] < 0 ELSE b[1] > 0)
    ELSE a[1] * b[2] < b[1] * a[2]

REq(a, b) == ~IsNaN(a) /\ ~IsNaN(b) /\ a = b

RECURSIVE RSum(_)
RSum(s) == IF s = <<>> THEN R(0) ELSE RAdd(s[1], RSum(Tail(s)))

\* np.floor(np.sqrt(n)) and np.ceil(np.sqrt(n)) for an integer n >= 0
FloorSqrt(n) == CHOOSE k \in 0..n : k * k <= n /\ (k + 1) * (k + 1) > n
CeilSqrt(n) == CHOOSE k \in 0..n : k * k >= n /\ (k = 0 \/ (k - 1) * (k - 1) < n)

-----------------------------------------------------------------------------
(* The estimator object: constructor arguments and set_params *)

Classes == {"PyboristModel", "PyboristClassifier", "PyboristRegressor"}

ClassWeightNone == [kind |-> "None", map |-> {}]
ClassWeightBalanced == [kind |-> "balanced", map |-> {}]
\* a dict-like class_weight is the set of its <<label, weight>> items
ClassWeightDict(items) == [kind |-> "dict", map |-> items]

\* PyboristModel.__init__ defaults
DefaultParams ==
    [ n_estimators      |-> 10,
      bootstrap         |-> TRUE,
      class_weight      |-> ClassWeightNone,
      min_info_ratio    |-> <<1, 100>>,
      min_samples_split |-> 2,
      max_depth         |-> 0,
      no_validate       |-> TRUE,
      n_to_sample       |-> 0,
      max_features      |-> 0,
      pred_prob         |-> <<0, 1>>,
      quantiles_arr     |-> None,
      q_bin             |-> 5000,
      reg_mono          |-> None,
      tree_block        |-> 1,
      pvt_block         |-> 8,
      is_classifier     |-> FALSE ]

AllKeys == DOMAIN DefaultParams

\* get_allowed_param_keys of the class c of the object
get_allowed_param_keys(c) ==
    CASE c = "PyboristModel"      -> AllKeys
      [] c = "PyboristClassifier" -> AllKeys \ {"reg_mono", "is_classifier"}
      [] c = "PyboristRegressor"  -> AllKeys \ {"class_weight", "is_classifier"}

\* __init__ of class c with keyword arguments kw (a function on a subset of the
\* keys the class's constructor takes): every argument is stored on the object
Construct(c, kw) ==
    LET given == [k \in AllKeys |-> IF k \in DOMAIN kw THEN kw[k] ELSE DefaultParams[k]]
    IN  CASE c = "PyboristModel"      -> given
          [] c = "PyboristClassifier" ->
                 [given EXCEPT !.reg_mono = None, !.is_classifier = TRUE]
          [] c = "PyboristRegressor"  ->
                 [given EXCEPT !.class_weight = ClassWeightNone, !.is_classifier = FALSE]

\* the class attribute _estimator_type of the two subclasses
ClassEstimatorType(c) ==
    CASE c = "PyboristModel"      -> "unset"
      [] c = "PyboristClassifier" -> "classifier"
      [] c = "PyboristRegressor"  -> "regressor"

EmptyRealParams ==
    [ presort_row |-> None, presort_rank |-> None, presort_inv_num |-> None,
      n_to_sample |-> None, class_weight |-> None, max_features |-> None,
      prob_arr |-> None, reg_mono |-> None ]

\* the attributes fit and predict create on the object, before any call
Unfitted(c) ==
    [ estimator_type |-> ClassEstimatorType(c),
      classes_       |-> None,
      n_classes_     |-> None,
      n_samples_     |-> None,
      n_features_    |-> None,
      real_params    |-> None,
      estimators_    |-> None,
      n_outputs_     |-> None,
      y_pred         |-> None ]

\* set_params(**kwargs): only the keys the class allows are stored
set_params(c, self, kwargs) ==
    [k \in DOMAIN self |->
        IF k \in DOMAIN kwargs /\ k \in get_allowed_param_keys(c)
        THEN kwargs[k] ELSE self[k]]

\* get_params(): the allowed keys and their current values
get_params(c, self) == [k \in get_allowed_param_keys(c) |-> self[k]]

-----------------------------------------------------------------------------
(* numpy helpers on sequences *)

Ones(n) == [i \in 1..n |-> 1]
\* np.ones(n) as doubles
ROnes(n) == [i \in 1..n |-> R(1)]
Zeros(n) == [i \in 1..n |-> 0]

SeqRange(s) == {s[i] : i \in DOMAIN s}

RECURSIVE SortedSeq(_)
\* the elements of a finite set of integers in ascending order
SortedSeq(S) ==
    IF S = {} THEN <<>>
    ELSE LET m == CHOOSE x \in S : \A z \in S : x <= z
         IN  <<m>> \o SortedSeq(S \ {m})

\* np.unique(y, return_inverse=True): sorted distinct labels, and for each row
\* the 0-based index of its label among them
Unique(y) == SortedSeq(SeqRange(y))
UniqueInverse(y) ==
    LET u == Unique(y)
    IN  [i \in DOMAIN y |-> (CHOOSE k \in DOMAIN u : u[k] = y[i]) - 1]

\* np.bincount(y) for 0-based class indices y over n_classes classes
Bincount(y, n_classes) ==
    [k \in 1..n_classes |-> Cardinality({i \in DOMAIN y : y[i] = k - 1})]

\* X is [n_rows, n_features, data], data the row-major matrix;
\* X.transpose().reshape(X.size) is the feature-major flattening
FlattenFeatureMajor(X) ==
    [k \in 1..(X.n_rows * X.n_features) |->
        X.data[((k - 1) % X.n_rows) + 1][((k - 1) \div X.n_rows) + 1]]

\* X.reshape(X.size) is the row-major flattening
FlattenRowMajor(X) ==
    [k \in 1..(X.n_rows * X.n_features) |->
        X.data[((k - 1) \div X.n_features) + 1][((k - 1) % X.n_features) + 1]]

\* np.round of a finite rational: nearest integer, halves to the even one
Round(a) ==
    LET fl == IF a[1] >= 0 THEN a[1] \div a[2] ELSE -((-a[1] + a[2] - 1) \div a[2])
        twice == 2 * (a[1] - fl * a[2])
    IN  IF twice < a[2] THEN fl
        ELSE IF twice > a[2] THEN fl + 1
        ELSE IF fl % 2 = 0 THEN fl ELSE fl + 1

\* 1 - np.exp(-1), to six decimal places
OneMinusInvE == <<632121, 1000000>>

-----------------------------------------------------------------------------
(* Presort engine (PyRowRank.PreSortNum): per predictor column the stable     *)
(* ascending row order, the dense rank and the tie-run counter                *)

RECURSIVE StableOrder_TiesReversed(_, _)
\* an ascending order that lists tied rows from the last to the first
StableOrder_TiesReversed(col, todo) ==
    IF todo = {} THEN <<>>
    ELSE LET m == CHOOSE i \in todo :
                     \A j \in todo : col[i] < col[j] \/ (col[i] = col[j] /\ i >= j)
         IN  <<m>> \o StableOrder_TiesReversed(col, todo \ {m})

\* the sequences of a column with a counter that is never reset
RankColumn_RunningCount(col, ord) ==
    [ row     |-> [i \in DOMAIN col |-> ord[i] - 1],
      rank    |-> [i \in DOMAIN col |->
                     Cardinality({v \in SeqRange(col) : v < col[ord[i]]})],
      inv_num |-> [i \in DOMAIN col |-> i - 1] ]

RECURSIVE StableOrder(_, _)
\* rows (1-based) of column col still in todo, by ascending value, ties by row
StableOrder(col, todo) ==
    IF todo = {} THEN <<>>
    ELSE LET m == CHOOSE i \in todo :
                     \A j \in todo : col[i] < col[j] \/ (col[i] = col[j] /\ i <= j)
         IN  <<m>> \o StableOrder(col, todo \ {m})

\* the three sequences of one column, given its stable order ord
RankColumn(col, ord) ==
    [ row     |-> [i \in DOMAIN col |-> ord[i] - 1],
      rank    |-> [i \in DOMAIN col |->
                     Cardinality({v \in SeqRange(col) : v < col[ord[i]]})],
      inv_num |-> [i \in DOMAIN col |->
                     Cardinality({j \in 1..(i - 1) : col[ord[j]] = col[ord[i]]})] ]

PreSortColumn(col) ==
    Bind(StableOrder(col, DOMAIN col), LAMBDA ord : RankColumn(col, ord))

\* the arrays of the columns out, flattened predictor by predictor
FlattenColumns(out, n_features, n_samples) ==
    LET flat(field) == [k \in 1..(n_features * n_samples) |->
                          out[((k - 1) \div n_samples) + 1][field][((k - 1) % n_samples) + 1]]
    IN  [ row |-> flat("row"), rank |-> flat("rank"), inv_num |-> flat("inv_num") ]

PreSortNum(feNum, n_features, n_samples) ==
    Bind([p \in 1..n_features |->
             PreSortColumn([i \in 1..n_samples |-> feNum[(p - 1) * n_samples + i]])],
         LAMBDA out : FlattenColumns(out, n_features, n_samples))

-----------------------------------------------------------------------------
(* fit: validation of the weights and of the data-independent parameters *)

NoError == [type |-> "", msg |-> ""]
ValueError(m) == [type |-> "ValueError", msg |-> m]
KeyError(m) == [type |-> "KeyError", msg |-> m]
AttributeError(m) == [type |-> "AttributeError", msg |-> m]
IndexError(m) == [type |-> "IndexError", msg |-> m]
EngineError(m) == [type |-> "EngineError", msg |-> m]

\* the checks of fit on a supplied sample_weight (what = "Sample") or
\* feature_weight (what = "Predictor") vector w against its expected length n
CheckWeight(w, n, what) ==
    IF Len(w) # n THEN ValueError(what \o " weight should equal to column number.")
    ELSE IF \E i \in DOMAIN w : RLt(w[i], R(0))
         THEN ValueError(what \o " weight should larger than zero.")
    ELSE IF REq(RSum(w), R(0)) THEN ValueError(what \o " weight could not be all zero.")
    ELSE NoError

\* np.any(np.diff(q) < 0.0)
Decreases(q) == \E i \in 1..(Len(q) - 1) : RLt(q[i + 1], q[i])

\* _valid_default_params with min_samples_split tested by < 0 instead of <= 0
valid_default_params_ZeroSplit(self) ==
    IF self.min_samples_split < 0 THEN ValueError("Invalid min_samples_split.")
    ELSE IF ~IsNone(self.quantiles_arr)
            /\ \E i \in DOMAIN Val(self.quantiles_arr) :
                  RLt(Val(self.quantiles_arr)[i], R(0)) \/ RLt(R(1), Val(self.quantiles_arr)[i])
         THEN ValueError("Quantiles shoule be inside 0 and 1.")
    ELSE IF ~IsNone(self.quantiles_arr) /\ Decreases(Val(self.quantiles_arr))
         THEN ValueError("Quantiles should be increasing.")
    ELSE IF RLt(self.pred_prob, R(0)) \/ RLt(R(1), self.pred_prob)
         THEN ValueError("pred_prob should be inside [0.0, 1.0].")
    ELSE IF self.is_classifier /\ ~IsNone(self.quantiles_arr)
         THEN ValueError("Quantiles are for regression only.")
    ELSE NoError

\* _valid_default_params: the checks that are independent of X and y
valid_default_params(self) ==
    IF self.min_samples_split <= 0 THEN ValueError("Invalid min_samples_split.")
    ELSE IF ~IsNone(self.quantiles_arr)
            /\ \E i \in DOMAIN Val(self.quantiles_arr) :
                  RLt(Val(self.quantiles_arr)[i], R(0)) \/ RLt(R(1), Val(self.quantiles_arr)[i])
         THEN ValueError("Quantiles shoule be inside 0 and 1.")
    ELSE IF ~IsNone(self.quantiles_arr) /\ Decreases(Val(self.quantiles_arr))
         THEN ValueError("Quantiles should be increasing.")
    ELSE IF RLt(self.pred_prob, R(0)) \/ RLt(R(1), self.pred_prob)
         THEN ValueError("pred_prob should be inside [0.0, 1.0].")
    ELSE IF self.is_classifier /\ ~IsNone(self.quantiles_arr)
         THEN ValueError("Quantiles are for regression only.")
    ELSE NoError

\* _init_row_rank: the presort arrays stored in real_params
init_row_rank(rp, X) ==
    Bind(Bind(FlattenFeatureMajor(X),
              LAMBDA feNum : PreSortNum(feNum, X.n_features, X.n_rows)),
         LAMBDA out : [rp EXCEPT !.presort_row = Some(out.row),
                                 !.presort_rank = Some(out.rank),
                                 !.presort_inv_num = Some(out.inv_num)])

-----------------------------------------------------------------------------
(* fit: _adjust_model_params *)

\* the default of n_to_sample with the product truncated instead of rounded
ResolveNToSample_Truncates(self, n_samples) ==
    IF self.n_to_sample = 0
    THEN (IF self.bootstrap THEN n_samples
          ELSE (OneMinusInvE[1] * n_samples) \div OneMinusInvE[2])
    ELSE self.n_to_sample

\* 'n_to_sample': the supplied value, or its default when left at 0
ResolveNToSample(self, n_samples) ==
    IF self.n_to_sample = 0
    THEN (IF self.bootstrap THEN n_samples
          ELSE Round(RMul(OneMinusInvE, R(n_samples))))
    ELSE self.n_to_sample

DictValues(cw) == {it[2] : it \in cw.map}
DictHasKey(cw, k) == \E it \in cw.map : it[1] = k
DictGet(cw, k) == (CHOOSE it \in cw.map : it[1] = k)[2]
\* np.sum(list(self.class_weight.values()))
RECURSIVE DictSum(_)
DictSum(items) ==
    IF items = {} THEN 0
    ELSE LET it == CHOOSE x \in items : TRUE IN it[2] + DictSum(items \ {it})

\* the class-weight check without the test on negative weights
ClassWeightError_NegativeAccepted(self, classes) ==
    IF self.class_weight.kind # "dict" THEN NoError
    ELSE IF DictSum(self.class_weight.map) = 0
         THEN ValueError("Invalid class weighting.")
    ELSE IF Cardinality(self.class_weight.map) < Len(classes)
         THEN ValueError("Some class weighting missed.")
    ELSE IF \E k \in DOMAIN classes : ~DictHasKey(self.class_weight, classes[k])
         THEN KeyError("class_weight")
    ELSE NoError

\* the error, if any, class_weight raises in the classification branch
ClassWeightError(self, classes) ==
    IF self.class_weight.kind # "dict" THEN NoError
    ELSE IF \E v \in DictValues(self.class_weight) : v < 0
         THEN ValueError("Invalid class weighting.")
    ELSE IF DictSum(self.class_weight.map) = 0
         THEN ValueError("Invalid class weighting.")
    ELSE IF Cardinality(self.class_weight.map) < Len(classes)
         THEN ValueError("Some class weighting missed.")
    ELSE IF \E k \in DOMAIN classes : ~DictHasKey(self.class_weight, classes[k])
         THEN KeyError("class_weight")
    ELSE NoError

\* class_weight_arr before normalisation, one entry per class in classes_ order
RawClassWeight(self, classes, y, n_samples) ==
    LET n_classes == Len(classes)
    IN  CASE self.class_weight.kind = "None" -> [k \in 1..n_classes |-> R(1)]
          [] self.class_weight.kind = "balanced" ->
                 Bind(Bincount(y, n_classes),
                      LAMBDA counts : [k \in 1..n_classes |->
                                          RDiv(R(n_samples), R(n_classes * counts[k]))])
          [] self.class_weight.kind = "dict" ->
                 [k \in 1..n_classes |-> R(DictGet(self.class_weight, classes[k]))]

\* infinities zeroed, the division by the sum left out
Normalize_Unscaled(raw) ==
    [k \in DOMAIN raw |-> IF IsInf(raw[k]) THEN R(0) ELSE raw[k]]

\* infinities zeroed, then divided by the sum
Normalize(raw) ==
    Bind([k \in DOMAIN raw |-> IF IsInf(raw[k]) THEN R(0) ELSE raw[k]],
         LAMBDA fin : Bind(RSum(fin), LAMBDA total : [k \in DOMAIN fin |-> RDiv(fin[k], total)]))

NormalizedClassWeight(self, classes, y, n_samples) ==
    Bind(RawClassWeight(self, classes, y, n_samples), Normalize)

\* the per-row weight: the weight w of the row's class plus the jitter
\* (u[i] - 0.5) * 0.5 / n_samples / n_samples, u[i] the uniform draw of row i
Jitter(w, y, n_samples, u) ==
    [i \in 1..n_samples |->
        RAdd(w[y[i] + 1],
             RDiv(RDiv(RMul(RSub(u[i], <<1, 2>>), <<1, 2>>), R(n_samples)),
                  R(n_samples)))]

RowClassWeight(self, classes, y, n_samples, u) ==
    Bind(NormalizedClassWeight(self, classes, y, n_samples),
         LAMBDA w : Jitter(w, y, n_samples, u))

\* n_features below which a default split-candidate count is derived
SmallFeatureCount == 16

\* the derivation of max_features applied up to n_features = 16 inclusive
ResolveMaxFeatures_Inclusive(self, n_features) ==
    IF self.max_features = 0 /\ REq(self.pred_prob, R(0)) /\ n_features <= SmallFeatureCount
    THEN (IF self.is_classifier THEN FloorSqrt(n_features)
          ELSE (IF n_features \div 3 > 1 THEN n_features \div 3 ELSE 1))
    ELSE self.max_features

\* 'max_features': the supplied count, or the derived one when neither the count
\* nor pred_prob is given and n_features < 16
ResolveMaxFeatures(self, n_features) ==
    IF self.max_features = 0 /\ REq(self.pred_prob, R(0)) /\ n_features < SmallFeatureCount
    THEN (IF self.is_classifier THEN FloorSqrt(n_features)
          ELSE (IF n_features \div 3 > 1 THEN n_features \div 3 ELSE 1))
    ELSE self.max_features

\* the local pred_prob: the default is taken when the attributes pred_prob and
\* max_features are both at 0
ResolvePredProb(self, n_features) ==
    IF REq(self.pred_prob, R(0)) /\ self.max_features = 0
    THEN (IF self.is_classifier THEN RDiv(R(CeilSqrt(n_features)), R(n_features))
          ELSE <<2, 5>>)
    ELSE self.pred_prob

\* mean_weight = 1.0 if pred_prob == 0.0 else pred_prob
MeanWeight(pred_prob) == IF REq(pred_prob, R(0)) THEN R(1) ELSE pred_prob

\* prob_arr = feature_weight * (n_features * mean_weight) / np.sum(feature_weight)
ProbArr(feature_weight, n_features, mean_weight) ==
    Bind(RSum(feature_weight),
         LAMBDA total : [i \in DOMAIN feature_weight |->
                            RDiv(RMul(feature_weight[i], RMul(R(n_features), mean_weight)),
                                 total)])

\* _adjust_model_params: [error, real_params, pred_prob]; real_params holds what
\* had been stored when the error was raised, pred_prob the local of that name
adjust_model_params(self, rp0, classes, X, y, feature_weight, u) ==
    LET n_samples == X.n_rows
        n_features == X.n_features
        rp1 == [rp0 EXCEPT !.n_to_sample = Some(ResolveNToSample(self, n_samples))]
        cwErr == ClassWeightError(self, classes)
        rp2 == IF self.is_classifier
               THEN [rp1 EXCEPT !.class_weight =
                                   Some(RowClassWeight(self, classes, y, n_samples, u))]
               ELSE [rp1 EXCEPT !.reg_mono =
                                   Some(IF IsNone(self.reg_mono) THEN Zeros(n_features)
                                        ELSE Val(self.reg_mono))]
        rp3 == [rp2 EXCEPT !.max_features = Some(ResolveMaxFeatures(self, n_features))]
        pred_prob == ResolvePredProb(self, n_features)
        rp4 == [rp3 EXCEPT !.prob_arr =
                              Some(ProbArr(feature_weight, n_features, MeanWeight(pred_prob)))]
    IN  IF self.min_samples_split > n_samples
        THEN [error |-> ValueError("Invalid min_samples_split."),
              real_params |-> rp1, pred_prob |-> None]
        ELSE IF self.is_classifier /\ cwErr.type # ""
        THEN [error |-> cwErr, real_params |-> rp1, pred_prob |-> None]
        ELSE IF self.max_features > n_features
        THEN [error |-> ValueError("max_features should be no more than n_features."),
              real_params |-> rp2, pred_prob |-> None]
        ELSE [error |-> NoError, real_params |-> rp4, pred_prob |-> Some(pred_prob)]

-----------------------------------------------------------------------------
(* fit: the training request and the whole call *)

\* the arguments of PyTrain.Regression / PyTrain.Classification
TrainRequest(self, rp, X, y, sample_weight) ==
    [ task         |-> IF self.is_classifier THEN "classification" ELSE "regression",
      x            |-> FlattenFeatureMajor(X),
      y            |-> y,
      n_samples    |-> X.n_rows,
      n_features   |-> X.n_features,
      presort_row  |-> Val(rp.presort_row),
      presort_rank |-> Val(rp.presort_rank),
      presort_inv_num |-> Val(rp.presort_inv_num),
      n_estimators |-> self.n_estimators,
      n_to_sample  |-> Val(rp.n_to_sample),
      sample_weight |-> sample_weight,
      bootstrap    |-> self.bootstrap,
      tree_block   |-> self.tree_block,
      min_samples_split |-> self.min_samples_split,
      min_info_ratio |-> self.min_info_ratio,
      max_depth    |-> self.max_depth,
      max_features |-> Val(rp.max_features),
      prob_arr     |-> Val(rp.prob_arr),
      \* the last argument: reg_mono (regression) or class_weight (classification)
      last         |-> IF self.is_classifier THEN Val(rp.class_weight) ELSE Val(rp.reg_mono) ]

\* the opaque forest the training engine returns for a request; the model
\* keeps what the request trained it on
Forest(req, n_classes) ==
    [ task |-> req.task, n_features |-> req.n_features,
      n_samples |-> req.n_samples, n_classes |-> n_classes ]

\* a training step that stores a forest whatever the engine's outcome
train_StoresOnFailure(f, req, n_classes, engine) ==
    [f EXCEPT !.estimators_ = Some(Forest(req, n_classes))]

\* _train_regression / _train_classification: the engine is called with the
\* request and, when it returns, its result is stored in estimators_
train(f, req, n_classes, engine) ==
    IF engine = "ok" THEN [f EXCEPT !.estimators_ = Some(Forest(req, n_classes))]
    ELSE f

FitCall(args, branch, error, stages, pred_prob, request) ==
    [ op |-> "fit", args |-> args, branch |-> branch, error |-> error,
      stages |-> stages, pred_prob |-> pred_prob, request |-> request,
      result |-> None ]

\* fit(X, y, sample_weight, feature_weight) on the object with parameters self
\* and fitted attributes old; u are the uniform draws of the class-weight jitter
\* and engine is the outcome of the training engine ("ok" or "raise").
\* The value is the object's attributes after the call and the record of the call.
fit(self, old, X, y, sample_weight, feature_weight, u, engine) ==
    LET args == [n_rows |-> X.n_rows, n_features |-> X.n_features,
                 sample_weight |-> sample_weight, feature_weight |-> feature_weight]
        branch == IF self.is_classifier THEN "classification" ELSE "regression"
        swErr == IF IsNone(sample_weight) THEN NoError
                 ELSE CheckWeight(Val(sample_weight), X.n_rows, "Sample")
        fwErr == IF IsNone(feature_weight) THEN NoError
                 ELSE CheckWeight(Val(feature_weight), X.n_features, "Predictor")
        vErr == valid_default_params(self)
        \* lines 160-203 on the converted data d
        run(d) ==
            LET \* lines 160-172
                f1 == [old EXCEPT
                         !.estimator_type =
                             IF self.is_classifier THEN "classifier" ELSE "regressor",
                         !.classes_ = IF self.is_classifier THEN Some(d.classes) ELSE @,
                         !.n_classes_ = IF self.is_classifier THEN Some(Len(d.classes)) ELSE @,
                         !.n_samples_ = Some(X.n_rows),
                         !.n_features_ = Some(X.n_features),
                         !.real_params = Some(EmptyRealParams)]
                build(adj) ==
                    LET f3 == [f1 EXCEPT !.real_params = Some(adj.real_params)]
                        n_classes == IF self.is_classifier THEN Len(d.classes) ELSE 0
                    IN  IF adj.error.type # ""
                        THEN [fitted |-> f3,
                              call |-> FitCall(args, branch, adj.error,
                                               <<"weights", "valid", "presort", "adjust">>,
                                               None, None)]
                        ELSE Bind(TrainRequest(self, adj.real_params, X, d.y, d.sample_weight),
                                  LAMBDA req :
                                    [fitted |-> train(f3, req, n_classes, engine),
                                     call |-> FitCall(args, branch,
                                                      IF engine = "ok" THEN NoError
                                                      ELSE EngineError("train"),
                                                      <<"weights", "valid", "presort", "adjust",
                                                        "train">>,
                                                      adj.pred_prob, Some(req))])
                resolve(rpPresort) ==
                    Bind(adjust_model_params(self, rpPresort, d.classes, X, d.y,
                                             d.feature_weight, u), build)
            IN  IF swErr.type # ""
                THEN [fitted |-> f1,
                      call |-> FitCall(args, branch, swErr, <<"weights">>, None, None)]
                ELSE IF fwErr.type # ""
                THEN [fitted |-> f1,
                      call |-> FitCall(args, branch, fwErr, <<"weights">>, None, None)]
                ELSE IF vErr.type # ""
                THEN [fitted |-> f1,
                      call |-> FitCall(args, branch, vErr, <<"weights", "valid">>, None, None)]
                ELSE Bind(init_row_rank(EmptyRealParams, X), resolve)
    IN  IF X.n_rows # Len(y)
        THEN [fitted |-> old,
              call |-> FitCall(args, "none",
                               ValueError("X and y do not share the same first dimension."),
                               <<>>, None, None)]
        ELSE Bind([ classes |-> IF self.is_classifier THEN Unique(y) ELSE <<>>,
                    y |-> IF self.is_classifier THEN UniqueInverse(y) ELSE y,
                    sample_weight |-> IF IsNone(sample_weight) THEN ROnes(X.n_rows)
                                      ELSE Val(sample_weight),
                    feature_weight |-> IF IsNone(feature_weight) THEN ROnes(X.n_features)
                                       ELSE Val(feature_weight) ], run)

-----------------------------------------------------------------------------
(* predict *)

PredictCall(args, branch, error, stages, request, result) ==
    [ op |-> "predict", args |-> args, branch |-> branch, error |-> error,
      stages |-> stages, pred_prob |-> None, request |-> request,
      result |-> result ]

\* the arguments of PyPredict.Regression / PyPredict.Classification
PredictRequest(branch, X, n_classes, forest) ==
    [ task |-> branch, x |-> FlattenRowMajor(X), n_rows |-> X.n_rows,
      n_features |-> X.n_features, n_classes |-> n_classes, forest |-> forest ]

\* what the prediction engine may return per row: a class index below the class
\* count (classification) or a response value (regression)
EngineOutputs(branch, n_classes, forest) ==
    IF branch = "classification"
    THEN 0..((IF forest.n_classes > n_classes THEN forest.n_classes ELSE n_classes) - 1)
    ELSE {0}

\* a lookup that returns the engine's indices in place of the labels
LookupLabels_Indices(classes, out) == out

\* self.classes_[self.y_pred]: the label at each predicted (0-based) index
LookupLabels(classes, out) == [i \in DOMAIN out |-> classes[out[i] + 1]]

\* predict(X) on the object with parameters self and fitted attributes old.
\* leaf is what reading the leaf tables of a forest trained for the other task
\* does ("KeyError" or "ok"), engine the outcome of the prediction engine
\* ("ok" or "raise") and out its per-row output.
predict(self, old, X, leaf, engine, out) ==
    LET args == [n_rows |-> X.n_rows, n_features |-> X.n_features,
                 sample_weight |-> None, feature_weight |-> None]
        branch == IF self.is_classifier THEN "classification" ELSE "regression"
        f1 == [old EXCEPT !.n_outputs_ = Some(X.n_features)]
        forest == Val(old.estimators_)
        n_classes == IF self.is_classifier THEN Val(old.n_classes_) ELSE 0
        req == PredictRequest(branch, X, n_classes, forest)
        f2 == [f1 EXCEPT !.y_pred = Some(out)]
        classes == Val(old.classes_)
    IN  IF self.is_classifier /\ IsNone(old.n_classes_)
        THEN [fitted |-> f1,
              call |-> PredictCall(args, branch, AttributeError("n_classes_"), <<>>, None, None)]
        ELSE IF IsNone(old.estimators_)
        THEN [fitted |-> f1,
              call |-> PredictCall(args, branch, AttributeError("estimators_"), <<>>, None, None)]
        ELSE IF forest.task # branch /\ leaf = "KeyError"
        THEN [fitted |-> f1,
              call |-> PredictCall(args, branch, KeyError("leaf"), <<>>, None, None)]
        ELSE IF engine # "ok"
        THEN [fitted |-> f1,
              call |-> PredictCall(args, branch, EngineError("predict"),
                                   <<"engine">>, Some(req), None)]
        ELSE IF self.is_classifier /\ \E i \in DOMAIN out : out[i] + 1 > Len(classes)
        THEN [fitted |-> f2,
              call |-> PredictCall(args, branch, IndexError("classes_"),
                                   <<"engine">>, Some(req), None)]
        ELSE [fitted |-> f2,
              call |-> PredictCall(args, branch, NoError, <<"engine">>, Some(req),
                                   Some(IF self.is_classifier
                                        THEN LookupLabels(classes, out)
                                        ELSE out))]

-----------------------------------------------------------------------------
(* Inputs *)

Labels == 1..MaxLabel

\* a design matrix of the given shape: column j is constant when j is even and
\* descending with a tie otherwise
Matrix(n_rows, n_features) ==
    [ n_rows |-> n_rows, n_features |-> n_features,
      data |-> [i \in 1..n_rows |->
                  [j \in 1..n_features |-> IF j % 2 = 0 THEN 0 ELSE (n_rows - i) \div 2]] ]

\* responses of n rows: the non-decreasing label sequences and an unsorted one
\* (classification); regression takes the response as it is
Responses(self, n) ==
    IF self.is_classifier
    THEN {y \in [1..n -> Labels] : \A i \in 1..(n - 1) : y[i] <= y[i + 1]}
         \cup {[i \in 1..n |-> IF i = 1 THEN MaxLabel ELSE 1]}
    ELSE {[i \in 1..n |-> i]}

\* a weight vector the checks of fit accept
ValidWeights(n) == Some([i \in 1..n |-> IF i = 1 THEN R(0) ELSE R(2)])

\* optional weight vectors (of doubles) for a dimension of size n: all zero,
\* with a NaN, with a negative entry, valid and unequal, and one too long
WeightVectors(n) ==
    { None, Some([i \in 1..n |-> R(0)]),
      Some([i \in 1..n |-> IF i = 1 THEN NaN ELSE R(1)]),
      Some([i \in 1..n |-> IF i = 1 THEN R(-1) ELSE R(1)]),
      ValidWeights(n), Some(ROnes(n + 1)) }

\* uniform draws of the jitter for n rows (none are drawn in regression)
JitterDraws(self, n) ==
    IF self.is_classifier
    THEN { [i \in 1..n |-> <<1, 2>>], [i \in 1..n |-> IF i % 2 = 1 THEN <<0, 1>> ELSE <<3, 4>>] }
    ELSE { [i \in 1..n |-> <<1, 2>>] }

EngineOutcomes == {"ok", "raise"}

NoCall(op) ==
    [ op |-> op, args |-> None, branch |-> "none", error |-> NoError,
      stages |-> <<>>, pred_prob |-> None, request |-> None, result |-> None ]

-----------------------------------------------------------------------------
(* The life of one estimator: construction with default hyperparameters,     *)
(* then set_params, fit and predict calls in any order                       *)

Init ==
    /\ cls \in Classes
    /\ \E t \in BOOLEAN : params = Construct(cls, [is_classifier |-> t])
    /\ task0 = params.is_classifier
    /\ fitted = Unfitted(cls)
    /\ call = NoCall("init")

SetParamsKw(k, v) ==
    /\ params' = set_params(cls, params, [x \in {k} |-> v])
    /\ call' = NoCall("set_params")
    /\ UNCHANGED <<cls, task0, fitted>>

SetParams ==
    \/ \E v \in BOOLEAN : SetParamsKw("is_classifier", v)
    \/ \E v \in {0, 2} : SetParamsKw("min_samples_split", v)

FitWith(X, y, sample_weight, feature_weight, draws, outcomes) ==
    \E u \in draws :
        \E ok \in {fit(params, fitted, X, y, sample_weight, feature_weight, u, "ok")} :
            \* the training engine has an outcome only in the calls that reach it
            \E r \in {ok} \cup
                     (IF ok.call.request # None
                      THEN {fit(params, fitted, X, y, sample_weight, feature_weight, u, e) :
                               e \in outcomes \ {"ok"}}
                      ELSE {}) :
                /\ fitted' = r.fitted
                /\ call' = r.call
                /\ UNCHANGED <<cls, task0, params>>

Fit ==
    \E n_features \in {1, 2} :
        \E X \in {Matrix(MaxRows, n_features)},
           y \in {Ones(MaxRows), [i \in 1..MaxRows |-> IF i = 1 THEN MaxLabel ELSE 1],
                  Ones(MaxRows + 1)} :
            FitWith(X, y, None, None,
                    {[i \in 1..MaxRows |-> <<1, 2>>]}, EngineOutcomes)

\* the nondeterminism of a predict call: what reading the leaf tables of a
\* forest of the other task does, the engine's outcome and its per-row output
PredictChoices(self, old, X) ==
    LET branch == IF self.is_classifier THEN "classification" ELSE "regression"
        unfitted == IsNone(old.estimators_) \/ (self.is_classifier /\ IsNone(old.n_classes_))
        forest == Val(old.estimators_)
        outs == EngineOutputs(branch, IF self.is_classifier THEN Val(old.n_classes_) ELSE 0,
                              forest)
        none == [i \in 1..X.n_rows |-> 0]
    IN  IF unfitted THEN {<<"ok", "ok", none>>}
        ELSE (IF forest.task # branch THEN {<<"KeyError", "ok", none>>} ELSE {})
             \cup {<<"ok", "raise", none>>}
             \cup {<<"ok", "ok", out>> : out \in [1..X.n_rows -> outs]}

Predict ==
    \E n_rows \in 1..MaxPredRows, n_features \in {1, 2} :
        \E X \in {Matrix(n_rows, n_features)} :
            \E c \in PredictChoices(params, fitted, X) :
                \E r \in {predict(params, fitted, X, c[1], c[2], c[3])} :
                    /\ fitted' = r.fitted
                    /\ call' = r.call
                    /\ UNCHANGED <<cls, task0, params>>

Next == SetParams \/ Fit \/ Predict

Spec == Init /\ [][Next]_vars

-----------------------------------------------------------------------------
(* One fit call on a freshly constructed estimator: the constructor and fit  *)
(* are given at most MaxKwargs optional arguments between them               *)

FeatureCounts == {1, 2, 4, 16}

ClassWeights ==
    { ClassWeightNone, ClassWeightBalanced,
      ClassWeightDict({<<1, 1>>, <<MaxLabel, 3>>}),
      ClassWeightDict({<<1, 1>>}),
      ClassWeightDict({<<1, 1>>, <<MaxLabel + 1, 1>>}),
      ClassWeightDict({<<1, 1>>, <<MaxLabel, 1>>, <<MaxLabel + 1, 2>>}),
      ClassWeightDict({<<1, -1>>, <<MaxLabel, 3>>}),
      ClassWeightDict({<<1, 0>>, <<MaxLabel, 0>>}),
      ClassWeightDict({<<1, 0>>, <<MaxLabel, 0>>, <<MaxLabel + 1, 1>>}) }

CtorValues ==
    [ n_estimators      : {10},
      bootstrap         : BOOLEAN,
      class_weight      : ClassWeights,
      min_info_ratio    : {<<1, 100>>},
      min_samples_split : {0, 2, MaxRows, MaxRows + 1},
      max_depth         : {0},
      no_validate       : {TRUE},
      n_to_sample       : {0, 2},
      max_features      : {0, 1, 3},
      pred_prob         : {<<0, 1>>, <<1, 2>>, <<3, 2>>},
      quantiles_arr     : {None, Some(<<(<<1, 4>>), (<<1, 2>>)>>), Some(<<(<<3, 2>>)>>),
                           Some(<<(<<1, 2>>), (<<1, 4>>)>>)},
      q_bin             : {5000},
      reg_mono          : {None, Some(<<1>>), Some(<<0, 0>>), Some(<<1, -1>>)},
      tree_block        : {1},
      pvt_block         : {8},
      is_classifier     : BOOLEAN ]

\* the constructor arguments of p that are not at the defaults of class c
Supplied(c, p) == {k \in AllKeys : p[k] # Construct(c, <<>>)[k]}

\* the objects class c constructs from at most MaxKwargs keyword arguments
Constructed(c) ==
    {p \in CtorValues : p = Construct(c, p) /\ Cardinality(Supplied(c, p)) <= MaxKwargs}

InitFit ==
    /\ cls \in Classes
    /\ params \in Constructed(cls)
    /\ task0 = params.is_classifier
    /\ fitted = Unfitted(cls)
    /\ call = NoCall("init")

\* optional fit arguments the budget of optional arguments still allows; when
\* both vectors are given at least one of them is valid
OptionalWeights(given, n_rows, n_features) ==
    {<<None, None>>}
    \cup (IF given < MaxKwargs
          THEN {<<sw, None>> : sw \in WeightVectors(n_rows) \ {None}}
               \cup {<<None, fw>> : fw \in WeightVectors(n_features) \ {None}}
          ELSE {})
    \cup (IF given + 1 < MaxKwargs
          THEN {<<sw, fw>> \in (WeightVectors(n_rows) \ {None})
                                 \X (WeightVectors(n_features) \ {None}) :
                    sw = ValidWeights(n_rows) \/ fw = ValidWeights(n_features)}
          ELSE {})

FitOnce ==
    /\ call.op = "init"
    /\ \E n_rows \in {2, MaxRows}, n_features \in FeatureCounts :
         \E X \in {Matrix(n_rows, n_features)},
            y \in Responses(params, n_rows) \cup {Ones(n_rows + 1)},
            w \in OptionalWeights(Cardinality(Supplied(cls, params)), n_rows, n_features),
            u \in JitterDraws(params, n_rows) :
             FitWith(X, y, w[1], w[2], {u}, {"ok"})

NextFit == FitOnce

SpecFit == InitFit /\ [][NextFit]_vars

-----------------------------------------------------------------------------
(* Properties.  They are stated over the record of the last call (call), the *)
(* hyperparameters (params) and the fitted attributes (fitted).              *)

Stages == SeqRange(call.stages)
IsFit == call.op = "fit"
IsPredict == call.op = "predict"
\* the last call was a fit that one of fit's own checks rejected
FitRejected == IsFit /\ call.error.type \in {"ValueError", "KeyError"}
TrainingReached == IsFit /\ "train" \in Stages
PresortReached == IsFit /\ "presort" \in Stages

\* the validation rules, as conditions on the inputs of the last fit; the
\* weight rule is the one fit tests: no entry below 0 and the sum not 0
WeightOk(w, n) ==
    IsNone(w) \/ ( /\ Len(Val(w)) = n
                   /\ \A i \in DOMAIN Val(w) : ~RLt(Val(w)[i], R(0))
                   /\ ~REq(RSum(Val(w)), R(0)) )
WeightsOk ==
    /\ WeightOk(call.args.sample_weight, call.args.n_rows)
    /\ WeightOk(call.args.feature_weight, call.args.n_features)
QuantilesOk ==
    IsNone(params.quantiles_arr)
    \/ ( /\ ~params.is_classifier
         /\ \A i \in DOMAIN Val(params.quantiles_arr) :
               /\ ~RLt(Val(params.quantiles_arr)[i], R(0))
               /\ ~RLt(R(1), Val(params.quantiles_arr)[i])
         /\ ~Decreases(Val(params.quantiles_arr)) )
PredProbOk == ~RLt(params.pred_prob, R(0)) /\ ~RLt(R(1), params.pred_prob)
\* a mapping gives a non-negative weight to every class of the response
ClassWeightComplete ==
    /\ \A v \in DictValues(params.class_weight) : v >= 0
    /\ \A k \in DOMAIN Val(fitted.classes_) :
          DictHasKey(params.class_weight, Val(fitted.classes_)[k])
ClassWeightOk ==
    ~params.is_classifier \/ params.class_weight.kind # "dict" \/ ClassWeightComplete
\* the rules that need neither X nor y, and the rules that need them
IndependentOk ==
    WeightsOk /\ params.min_samples_split > 0 /\ QuantilesOk /\ PredProbOk
DependentOk ==
    /\ params.min_samples_split <= call.args.n_rows
    /\ params.max_features <= call.args.n_features
    /\ ClassWeightOk

\* C1 (as claimed): every validation failure of fit (min_samples_split, weights,
\* quantiles, pred_prob, max_features, class_weight) is raised before presort
\* and before the training engine: a rejected fit has invoked neither
C1_ValidationBeforePresort ==
    FitRejected => ("presort" \notin Stages /\ "train" \notin Stages)

\* C1 (amended): every validation failure of fit is raised before the training
\* engine is invoked, and the training engine is reached only with inputs that
\* satisfy every rule; the weight checks and the checks that do not depend on
\* the data (min_samples_split <= 0, quantiles, pred_prob) are raised before
\* presort, the checks that depend on it (min_samples_split > n_rows,
\* class_weight, max_features > n_features) after presort has run
C1_ValidationBeforeTraining ==
    IsFit =>
        /\ FitRejected => "train" \notin Stages
        /\ "train" \in Stages => (IndependentOk /\ DependentOk)
        /\ "presort" \in Stages => IndependentOk
        /\ (FitRejected /\ call.branch # "none" /\ IndependentOk) =>
               "presort" \in Stages
        /\ \E k \in 0..5 : call.stages =
               SubSeq(<<"weights", "valid", "presort", "adjust", "train">>, 1, k)

\* a fit rejected for min_samples_split > n_rows after presort has run
C1_Witness ==
    /\ FitRejected
    /\ "presort" \in Stages /\ "train" \notin Stages
    /\ call.error.msg = "Invalid min_samples_split."
    /\ params.min_samples_split > call.args.n_rows

\* C2: predict on a model for which no fit has completed successfully fails
\* with the unfitted-model error (the AttributeError of the missing fitted
\* attribute) and never reaches the prediction engine.  While estimators_ is
\* unset every predict fails so, and only a fit that ends without error sets it
C2_UnfittedPredictFails ==
    [][ IsNone(fitted.estimators_) =>
          /\ call'.op = "predict" =>
                /\ call'.error.type = "AttributeError"
                /\ call'.stages = <<>>
                /\ call'.request = None /\ call'.result = None
          /\ ~IsNone(fitted'.estimators_) =>
                (call'.op = "fit" /\ call'.error = NoError) ]_vars

\* predict rejected as unfitted after a fit that failed
C2_Witness ==
    /\ IsPredict
    /\ IsNone(fitted.estimators_) /\ ~IsNone(fitted.n_samples_)
    /\ call.error.type = "AttributeError"

\* C3: predict on a fitted model with rows whose column count differs from the
\* n_features of the fit fails with the feature-count error instead of calling
\* the prediction engine
C3_FeatureCountMismatch ==
    ( /\ IsPredict
      /\ ~IsNone(fitted.estimators_)
      /\ call.args.n_features # Val(fitted.estimators_).n_features )
    => (call.error.type = "ValueError" /\ "engine" \notin Stages)

\* C4: the branch selected in fit and in predict is the one of the task given
\* at construction, whatever set_params, fit and predict calls came before
C4_TaskFixedAtConstruction ==
    (call.op \in {"fit", "predict"} /\ call.branch # "none")
    => call.branch = (IF task0 THEN "classification" ELSE "regression")

RegMonoNonZero ==
    ~IsNone(params.reg_mono)
    /\ \E i \in DOMAIN Val(params.reg_mono) : Val(params.reg_mono)[i] # 0

\* C5: a regression fit given a class-weight input fails with an invalid
\* parameter error, and so does a classification fit given a monotonicity
\* vector with a non-zero entry
C5_TaskForbiddenInputs ==
    ( /\ IsFit
      /\ \/ ~params.is_classifier /\ params.class_weight # ClassWeightNone
         \/ params.is_classifier /\ RegMonoNonZero )
    => call.error.type = "ValueError"

\* the default trial probability of the task
DefaultPredProb ==
    IF params.is_classifier
    THEN RDiv(R(CeilSqrt(call.args.n_features)), R(call.args.n_features))
    ELSE <<2, 5>>
ResolvedMaxFeatures == Val(Val(fitted.real_params).max_features)

\* C6: when neither max_features nor pred_prob is supplied, the default trial
\* probability is applied only if the candidate count is still unset after the
\* n_features < 16 rule; when the rule has set the count, the trial probability
\* stays unset (0)
C6_DefaultTrialProbability ==
    ( /\ TrainingReached
      /\ params.max_features = 0 /\ REq(params.pred_prob, R(0)) )
    => /\ ResolvedMaxFeatures = 0 => REq(Val(call.pred_prob), DefaultPredProb)
       /\ ResolvedMaxFeatures # 0 => REq(Val(call.pred_prob), R(0))

\* the mean weight of the trial-probability vector: the trial probability when
\* it governs selection, 1 when the candidate count governs
EffectiveMeanWeight ==
    IF ~REq(params.pred_prob, R(0)) THEN params.pred_prob
    ELSE IF ResolvedMaxFeatures # 0 THEN R(1)
    ELSE DefaultPredProb
FeatureWeight ==
    IF IsNone(call.args.feature_weight) THEN ROnes(call.args.n_features)
    ELSE Val(call.args.feature_weight)

\* C7: the resolved trial-probability vector is
\* feature_weight * (n_features * effective_mean_weight) / sum(feature_weight),
\* so its entries sum to n_features * effective_mean_weight
C7_TrialProbabilityVector ==
    TrainingReached =>
        LET prob_arr == Val(Val(fitted.real_params).prob_arr)
            scale == RMul(R(call.args.n_features), EffectiveMeanWeight)
        IN  /\ Len(prob_arr) = Len(FeatureWeight)
            /\ \A i \in DOMAIN prob_arr :
                  REq(prob_arr[i],
                      RDiv(RMul(FeatureWeight[i], scale), RSum(FeatureWeight)))
            /\ REq(RSum(prob_arr), scale)

\* C8: an explicit class-weight mapping is accepted only if it gives a
\* non-negative weight to every class of the response; a mapping without a
\* weight for a fitted class, or with a negative weight, fails with an invalid
\* parameter error, whatever its size
C8_ClassWeightMapping ==
    ( /\ IsFit /\ "adjust" \in Stages
      /\ params.is_classifier /\ params.class_weight.kind = "dict"
      /\ params.min_samples_split <= call.args.n_rows )
    => /\ "train" \in Stages => ClassWeightComplete
       /\ ~ClassWeightComplete => call.error.type = "ValueError"

\* C9: the training engine is called only with vectors of their declared
\* lengths: sample weights and class weights of n_rows entries, the
\* trial-probability and monotonicity vectors of n_features entries
C9_VectorLengths ==
    TrainingReached =>
        LET req == Val(call.request)
        IN  /\ Len(req.sample_weight) = req.n_samples
            /\ Len(req.prob_arr) = req.n_features
            /\ Len(req.last) = (IF req.task = "classification" THEN req.n_samples
                                ELSE req.n_features)

\* C10: fit fails with an invalid parameter error whenever
\* min_samples_split <= 0 or min_samples_split > n_rows, the error naming
\* min_samples_split unless an earlier check has failed, and it never fails on
\* min_samples_split when 0 < min_samples_split <= n_rows
C10_MinSamplesSplit ==
    IsFit =>
        LET mss == params.min_samples_split
            n_rows == call.args.n_rows
            named == call.error = ValueError("Invalid min_samples_split.")
        IN  /\ (mss <= 0 \/ mss > n_rows) => call.error.type = "ValueError"
            /\ (mss <= 0 /\ WeightsOk /\ call.branch # "none") => named
            /\ (mss > n_rows /\ IndependentOk /\ call.branch # "none") => named
            /\ (0 < mss /\ mss <= n_rows) => ~named

\* a fit rejected for min_samples_split = 0 by the first check on the parameters
C10_Witness ==
    /\ IsFit
    /\ params.min_samples_split <= 0
    /\ call.error = ValueError("Invalid min_samples_split.")
    /\ call.stages = <<"weights", "valid">>

\* the weight rule as stated: the declared length, every entry >= 0, sum > 0
WeightValid(w, n) ==
    /\ Len(w) = n
    /\ \A i \in DOMAIN w : ~IsNaN(w[i]) /\ ~RLt(w[i], R(0))
    /\ RLt(R(0), RSum(w))

\* C11: a supplied sample_weight (feature_weight) is accepted by fit if and
\* only if its length is n_rows (n_features), all entries are >= 0 and the sum
\* is > 0; otherwise fit fails before presort and training; an omitted vector
\* resolves to all ones
C11_WeightsAccepted ==
    (IsFit /\ call.branch # "none") =>
        LET sw == call.args.sample_weight
            fw == call.args.feature_weight
            valid == /\ IsNone(sw) \/ WeightValid(Val(sw), call.args.n_rows)
                     /\ IsNone(fw) \/ WeightValid(Val(fw), call.args.n_features)
        IN  /\ valid => "valid" \in Stages
            /\ ~valid => /\ call.error.type = "ValueError"
                         /\ call.stages = <<"weights">>
            /\ (TrainingReached /\ IsNone(sw)) =>
                   Val(call.request).sample_weight = ROnes(call.args.n_rows)
            /\ (TrainingReached /\ IsNone(fw)) =>
                   \A i, j \in DOMAIN Val(call.request).prob_arr :
                       Val(call.request).prob_arr[i] = Val(call.request).prob_arr[j]

\* r is n * (1 - 1/e) rounded to the nearest integer, 1 - 1/e lying between
\* 0.632120 and 0.632121
RoundsSampleFraction(r, n) ==
    /\ 2 * 1000000 * r - 1000000 <= 2 * 632121 * n
    /\ 2 * 632120 * n <= 2 * 1000000 * r + 1000000

\* the resolved n_to_sample of 100 rows with and without bootstrap
NToSampleExample ==
    << ResolveNToSample(DefaultParams, 100),
       ResolveNToSample([DefaultParams EXCEPT !.bootstrap = FALSE], 100) >>

\* C12: n_to_sample left at 0 resolves to n_rows if bootstrap is true and to
\* round(n_rows * (1 - 1/e)) otherwise (100 rows: 100 and 63); a non-zero
\* n_to_sample is passed through unchanged
C12_NToSample ==
    /\ NToSampleExample = <<100, 63>>
    /\ (IsFit /\ "adjust" \in Stages) =>
          LET resolved == Val(Val(fitted.real_params).n_to_sample)
          IN  /\ params.n_to_sample # 0 => resolved = params.n_to_sample
              /\ (params.n_to_sample = 0 /\ params.bootstrap) =>
                     resolved = call.args.n_rows
              /\ (params.n_to_sample = 0 /\ ~params.bootstrap) =>
                     RoundsSampleFraction(resolved, call.args.n_rows)
              /\ TrainingReached => Val(call.request).n_to_sample = resolved

\* a fit without bootstrap that reached the engine with the rounded default
C12_Witness ==
    /\ TrainingReached
    /\ params.n_to_sample = 0 /\ ~params.bootstrap
    /\ call.args.n_rows = MaxRows
    /\ Val(call.request).n_to_sample < MaxRows

\* C13: when n_features < 16 and neither max_features nor pred_prob is given,
\* the resolved candidate count is floor(sqrt(n_features)) for classification
\* and max(floor(n_features / 3), 1) for regression; in every other case the
\* supplied candidate count is kept unchanged
C13_MaxFeatures ==
    TrainingReached =>
        LET n == call.args.n_features
            r == ResolvedMaxFeatures
        IN  /\ Val(call.request).max_features = r
            /\ IF params.max_features = 0 /\ REq(params.pred_prob, R(0)) /\ n < 16
               THEN IF params.is_classifier
                    THEN r >= 0 /\ r * r <= n /\ n < (r + 1) * (r + 1)
                    ELSE \/ 3 * r <= n /\ n < 3 * (r + 1) /\ r >= 1
                         \/ n < 3 /\ r = 1
               ELSE r = params.max_features

\* a classification fit of 4 features that derived the count 2, where the
\* regression rule gives 1
C13_Witness ==
    /\ TrainingReached
    /\ params.is_classifier
    /\ params.max_features = 0 /\ REq(params.pred_prob, R(0))
    /\ call.args.n_features = 4
    /\ Val(call.request).max_features = 2

\* the rows of the training request coded with class index c
ClassCount(c) ==
    Cardinality({i \in DOMAIN Val(call.request).y : Val(call.request).y[i] = c})
\* the per-class weight proportional to 1 / class_count, of sum 1
BalancedWeight(c) ==
    RDiv(RDiv(R(1), R(ClassCount(c))),
         RSum([k \in 1..Val(fitted.n_classes_) |-> RDiv(R(1), R(ClassCount(k - 1)))]))
\* a and b differ by no more than the jitter's magnitude 0.25 / n_rows^2
WithinJitter(a, b) ==
    LET tol == RDiv(R(1), R(4 * call.args.n_rows * call.args.n_rows))
    IN  ~IsNaN(a) /\ ~RLt(tol, RSub(a, b)) /\ ~RLt(tol, RSub(b, a))

\* the normalized weights of 100 rows with class counts [80, 20]
BalancedExample ==
    NormalizedClassWeight([DefaultParams EXCEPT !.class_weight = ClassWeightBalanced],
                          <<1, 2>>, [i \in 1..100 |-> IF i <= 80 THEN 0 ELSE 1], 100)

\* C14: with class_weight = "balanced" the resolved per-class weights (ignoring
\* jitter) are proportional to 1 / class_count and sum to 1, so class counts
\* [80, 20] give [0.2, 0.8]; with class_weight = None every class gets the same
\* normalized weight
C14_BalancedClassWeight ==
    /\ BalancedExample = <<(<<1, 5>>), (<<4, 5>>)>>
    /\ (TrainingReached /\ params.is_classifier /\ params.class_weight.kind # "dict") =>
          \A req \in {Val(call.request)} :
            \A w \in {[c \in 0..(Val(fitted.n_classes_) - 1) |->
                          IF params.class_weight = ClassWeightBalanced
                          THEN BalancedWeight(c)
                          ELSE RDiv(R(1), R(Val(fitted.n_classes_)))]} :
              \A i \in DOMAIN req.last : WithinJitter(req.last[i], w[req.y[i]])

\* a balanced fit on a response with unequal class counts
C14_Witness ==
    /\ TrainingReached /\ params.is_classifier
    /\ params.class_weight = ClassWeightBalanced
    /\ Val(fitted.n_classes_) = 2
    /\ ClassCount(0) # ClassCount(1)

\* C15: predict never modifies the fitted state: the trained forest, n_features
\* and the class-label ordering captured by fit (sorted and de-duplicated) are
\* unchanged by every predict call, and a classification predict returns for
\* each row the label at the engine's predicted index in that ordering
C15_PredictFrame ==
    [][ call'.op = "predict" =>
          /\ fitted'.estimators_ = fitted.estimators_
          /\ fitted'.n_features_ = fitted.n_features_
          /\ fitted'.n_samples_ = fitted.n_samples_
          /\ fitted'.classes_ = fitted.classes_
          /\ fitted'.n_classes_ = fitted.n_classes_
          /\ fitted'.real_params = fitted.real_params
          /\ ~IsNone(fitted.classes_) =>
                \A i, j \in DOMAIN Val(fitted.classes_) :
                    i < j => Val(fitted.classes_)[i] < Val(fitted.classes_)[j]
          /\ (call'.branch = "classification" /\ ~IsNone(call'.result)) =>
                /\ Len(Val(call'.result)) = call'.args.n_rows
                /\ \A i \in DOMAIN Val(call'.result) :
                      Val(call'.result)[i] =
                          Val(fitted.classes_)[Val(fitted'.y_pred)[i] + 1] ]_vars

\* a classification predict on a forest of two classes that returned the
\* second label for the engine's index 1
C15_Witness ==
    /\ IsPredict /\ call.branch = "classification"
    /\ ~IsNone(call.result)
    /\ Val(fitted.classes_) = <<1, MaxLabel>>
    /\ Val(fitted.y_pred)[1] = 1
    /\ Val(call.result)[1] = MaxLabel

\* the matrix of the last fit and, for its predictor p (1-based), the values
\* of the column and the slice of a flattened presort array
FitMatrix == Matrix(call.args.n_rows, call.args.n_features)
ColumnValues(p) ==
    Bind(FitMatrix, LAMBDA X : [i \in 1..call.args.n_rows |-> X.data[i][p]])
PresortSlice(field, p) ==
    SubSeq(Val(Val(fitted.real_params)[field]),
           (p - 1) * call.args.n_rows + 1, p * call.args.n_rows)

\* C16: for every predictor column p, presort yields row[p] as a permutation
\* of 0..n_rows-1 listing the rows in ascending value order with ties kept in
\* original row order; a column of all-equal values gives row = [0,1,..,n_rows-1]
C16_PresortRow ==
    PresortReached =>
        \A p \in 1..call.args.n_features :
          \A row \in {PresortSlice("presort_row", p)}, col \in {ColumnValues(p)} :
            LET n == call.args.n_rows
            IN  /\ Len(row) = n
                /\ SeqRange(row) = 0..(n - 1)
                /\ \A k \in 1..(n - 1) :
                      \/ col[row[k] + 1] < col[row[k + 1] + 1]
                      \/ col[row[k] + 1] = col[row[k + 1] + 1] /\ row[k] < row[k + 1]
                /\ (\A i \in 1..n : col[i] = col[1]) => row = [k \in 1..n |-> k - 1]

\* the presort of a 3-row column whose first row holds the largest value and
\* whose other rows tie
C16_Witness ==
    /\ PresortReached
    /\ call.args.n_rows = 3 /\ call.args.n_features >= 2
    /\ PresortSlice("presort_row", 1) = <<1, 2, 0>>
    /\ PresortSlice("presort_row", 2) = <<0, 1, 2>>

\* C17: for every predictor column p, rank[p] is non-decreasing over sorted
\* position, two positions share a rank iff their values are equal, and
\* invNum[p][i] is 0 at the first position of each tie run and
\* invNum[p][i-1] + 1 at every other position
C17_PresortRank ==
    PresortReached =>
        \A p \in 1..call.args.n_features :
          \A row \in {PresortSlice("presort_row", p)},
             rank \in {PresortSlice("presort_rank", p)},
             inv_num \in {PresortSlice("presort_inv_num", p)},
             col \in {ColumnValues(p)} :
            LET n == call.args.n_rows
            IN  /\ Len(rank) = n /\ Len(inv_num) = n
                /\ \A k \in 1..(n - 1) : rank[k] <= rank[k + 1]
                /\ \A j, k \in 1..n :
                      (rank[j] = rank[k]) <=> (col[row[j] + 1] = col[row[k] + 1])
                /\ inv_num[1] = 0
                /\ \A k \in 2..n :
                      inv_num[k] = IF rank[k] # rank[k - 1] THEN 0 ELSE inv_num[k - 1] + 1

\* the ranks and tie counters of a 3-row column with a tie below its maximum
C17_Witness ==
    /\ PresortReached
    /\ call.args.n_rows = 3
    /\ PresortSlice("presort_rank", 1) = <<0, 0, 1>>
    /\ PresortSlice("presort_inv_num", 1) = <<0, 1, 0>>

\* C18: fit is atomic with respect to the fitted state: a fit call on an
\* already-fitted model that raises a validation error leaves classes_,
\* n_classes_, n_features_, n_samples_, the resolved parameters and the trained
\* forest as they were before the call
C18_FitAtomic ==
    [][ ( /\ ~IsNone(fitted.estimators_)
          /\ call'.op = "fit"
          /\ call'.error.type \in {"ValueError", "KeyError"} )
        => /\ fitted'.estimators_ = fitted.estimators_
           /\ fitted'.classes_ = fitted.classes_
           /\ fitted'.n_classes_ = fitted.n_classes_
           /\ fitted'.n_features_ = fitted.n_features_
           /\ fitted'.n_samples_ = fitted.n_samples_
           /\ fitted'.real_params = fitted.real_params ]_vars

\* a row of the training request coded with class index c
RowOfClass(c) == CHOOSE i \in DOMAIN Val(call.request).y : Val(call.request).y[i] = c

\* C19: for every class_weight input that classification resolution accepts
\* and every jitter draw, each entry of the per-row class-weight vector handed
\* to the training engine is a finite number >= 0, and the per-class weights
\* before jitter sum to 1 (here: the weights of one row per class sum to 1 up
\* to the jitter of those rows)
C19_ClassWeightFinite ==
    (TrainingReached /\ params.is_classifier) =>
        LET req == Val(call.request)
            n_classes == Val(fitted.n_classes_)
            total == RSum([k \in 1..n_classes |-> req.last[RowOfClass(k - 1)]])
            tol == RDiv(R(n_classes), R(4 * req.n_samples * req.n_samples))
        IN  /\ \A i \in DOMAIN req.last :
                  IsFinite(req.last[i]) /\ ~RLt(req.last[i], R(0))
            /\ IsFinite(total)
            /\ ~RLt(tol, RSub(total, R(1))) /\ ~RLt(tol, RSub(R(1), total))

=============================================================================
